---- MODULE Spec2Model ----
(***************************************************************************)
(* A model of app/dashboard/models.py: the Bounty status resolver          *)
(* (Bounty.status and the properties it reads), the pre-save hook that     *)
(* caches it (psave_bounty), the Interest post-save fan-out                *)
(* (psave_interest) and the Tip payout procedure (Tip.payout_to).          *)
(*                                                                         *)
(* Five specifications share the variables; each holds at rest the ones   *)
(* it does not exercise:                                                   *)
(*   Spec        one Bounty row, its related Interest rows and the clock;  *)
(*   SpecTips    one Bounty row, the Tip table and the clock;              *)
(*   SpecPayout  one Tip and the requests that call payout_to on it;       *)
(*   SpecValue   one Bounty row, its monetary columns and the rate service;*)
(*   SpecNatural the valuation properties of a Bounty or a Tip, applied to *)
(*               an amount.                                                *)
(***************************************************************************)
EXTENDS Integers, Sequences, FiniteSets, TLC

VARIABLES bounty, interested, tips, now, tip, req, sent, money, rates, calc

vars == <<bounty, interested, tips, now, tip, req, sent, money, rates, calc>>

bountyVars == <<bounty, interested, tips, now>>

payoutVars == <<tip, req, sent>>

valueVars == <<money, rates, calc>>

(***************************************************************************)
(* Bounds of the model.                                                    *)
(***************************************************************************)
MaxTime == 1

MaxDeadline == 2

MaxFulfillments == 1

MaxInterests == 1

MaxTips == 1

NumRequests == 2

MaxMantissa == 101

(***************************************************************************)
(* Values of the Bounty fields.                                            *)
(***************************************************************************)
\* Bounty.STATUS_CHOICES
STATUS_CHOICES == {"cancelled", "done", "expired", "open", "started", "submitted", "unknown"}

\* Bounty.PROJECT_TYPES
PROJECT_TYPES == {"traditional", "contest", "cooperative"}

\* web3_type: the field's default and the value is_legacy tests for
Web3Types == {"bounties_network", "legacy_gitcoin"}

\* override_status is a free-text CharField (no choices): the empty string
\* and a text an admin may type
OverrideStatuses == {"", "hidden"}

\* expires_date of a Bounty: the clock starts there and passes it; an
\* instance constructed without one holds None
ExpiresDates == {0}

\* deadlines in raw_data are timestamps
Deadlines == 1..MaxDeadline

\* an optional value: {} is None (the key is absent from raw_data), {d} is d
Optional(S) == {{}} \cup {{d} : d \in S}

\* raw_data: the two keys can_submit_after_expiration_date reads
RawDatas == [contract_deadline : Optional(Deadlines), ipfs_deadline : Optional(Deadlines)]

\* github_url of the bounty, and the urls a Tip row may carry: the same url,
\* the same url in another letter case, another issue's url
BountyUrl == "https://github.com/o/r/issues/1"

Urls == {"https://github.com/o/r/issues/1", "https://github.com/O/R/issues/1", "https://github.com/o/r/issues/2"}

Networks == {"mainnet", "rinkeby"}

\* the case folding the __iexact lookup compares under
Lower(u) == IF u = "https://github.com/O/R/issues/1" THEN "https://github.com/o/r/issues/1" ELSE u

TxIds == {"", "0xfund"}

\* every Tip row over these values
AllTipRows == [github_url : Urls, network : Networks, is_for_bounty_fulfiller : BOOLEAN, txid : TxIds]

\* the crowdfunding Tip of the bounty: its url and network, not for the
\* fulfiller, funded
MatchingTip == [github_url |-> BountyUrl, network |-> "mainnet", is_for_bounty_fulfiller |-> FALSE, txid |-> "0xfund"]

\* the Tip rows the Tip table receives: the matching Tip and the rows that
\* differ from it in one column
TipRows == {r \in AllTipRows :
              Cardinality({c \in {"github_url", "network", "is_for_bounty_fulfiller", "txid"} : r[c] # MatchingTip[c]}) <= 1}

(***************************************************************************)
(* Results of a property that may raise.                                   *)
(***************************************************************************)
Ok(v) == [exc |-> FALSE, val |-> v]

Raise == [exc |-> TRUE, val |-> FALSE]

\* Failures of the relational store during one status derivation: none, the
\* Tip query raises, the Interest query raises
Faults == {"none", "tips", "interested"}

(***************************************************************************)
(* Bounty properties.                                                      *)
(***************************************************************************)
is_legacy(b) == b.web3_type = "legacy_gitcoin"

\* `not ipfs_deadline` is true of None and of 0; `contract_deadline >
\* ipfs_deadline` raises TypeError when contract_deadline is None
can_submit_after_expiration_date(b) ==
    IF is_legacy(b) THEN Ok(TRUE)
    ELSE IF b.raw_data.ipfs_deadline = {} \/ b.raw_data.ipfs_deadline = {0} THEN Ok(FALSE)
    ELSE IF b.raw_data.contract_deadline = {} THEN Raise
    ELSE Ok(\E c \in b.raw_data.contract_deadline : \E i \in b.raw_data.ipfs_deadline : c > i)

\* `self.expires_date.replace(...)` raises AttributeError when expires_date is
\* None
past_expiration_date(b, t) ==
    IF b.expires_date = {} THEN Raise
    ELSE Ok(\E e \in b.expires_date : t > e)

\* `a and not b`: b is evaluated only when a is true
past_hard_expiration_date(b, t) ==
    IF past_expiration_date(b, t).exc THEN Raise
    ELSE IF ~past_expiration_date(b, t).val THEN Ok(FALSE)
    ELSE IF can_submit_after_expiration_date(b).exc THEN Raise
    ELSE Ok(~can_submit_after_expiration_date(b).val)

\* Bounty.tips with an exact match on github_url
bounty_tips_exact(b, tps) == {r \in tps : r.github_url = b.github_url /\ r.network = b.network}

\* Bounty.tips: Tip.objects.filter(github_url__iexact=..., network=...)
bounty_tips(b, tps) == {r \in tps : Lower(r.github_url) = Lower(b.github_url) /\ r.network = b.network}

\* self.tips.filter(is_for_bounty_fulfiller=False).exclude(txid='').exists()
has_tips(b, tps) == \E r \in bounty_tips(b, tps) : ~r.is_for_bounty_fulfiller /\ r.txid # ""

\* has_started_interest with the pending filter dropped
has_started_interest_any(ints) == \E i \in DOMAIN ints : TRUE

\* has_started_interest with the pending filter inverted
has_started_interest_pending(ints) == \E i \in DOMAIN ints : ints[i].pending

\* self.interested.filter(pending=False).exists()
has_started_interest(ints) == \E i \in DOMAIN ints : ~ints[i].pending

\* status_derived with the expiry test ahead of the accepted test
status_derived_expiry_first(b, ints, tps, t, fault) ==
    IF ~b.is_open THEN
        IF past_hard_expiration_date(b, t).exc THEN Raise
        ELSE IF past_hard_expiration_date(b, t).val THEN Ok("expired")
        ELSE IF b.accepted THEN Ok("done")
        ELSE IF fault = "tips" THEN Raise
        ELSE IF has_tips(b, tps) THEN Ok("done")
        ELSE Ok("cancelled")
    ELSE IF b.pk /\ b.project_type \in {"contest", "cooperative"} THEN Ok("open")
    ELSE IF b.num_fulfillments = 0 THEN
        IF ~b.pk THEN Ok("open")
        ELSE IF fault = "interested" THEN Raise
        ELSE IF has_started_interest(ints) THEN Ok("started")
        ELSE Ok("open")
    ELSE Ok("submitted")

\* status_derived with the Tip test ahead of the expiry test
status_derived_tips_first(b, ints, tps, t, fault) ==
    IF ~b.is_open THEN
        IF b.accepted THEN Ok("done")
        ELSE IF fault = "tips" THEN Raise
        ELSE IF has_tips(b, tps) THEN Ok("done")
        ELSE IF past_hard_expiration_date(b, t).exc THEN Raise
        ELSE IF past_hard_expiration_date(b, t).val THEN Ok("expired")
        ELSE Ok("cancelled")
    ELSE IF b.pk /\ b.project_type \in {"contest", "cooperative"} THEN Ok("open")
    ELSE IF b.num_fulfillments = 0 THEN
        IF ~b.pk THEN Ok("open")
        ELSE IF fault = "interested" THEN Raise
        ELSE IF has_started_interest(ints) THEN Ok("started")
        ELSE Ok("open")
    ELSE Ok("submitted")

\* status_derived with the project type test after the fulfillment count test
status_derived_count_first(b, ints, tps, t, fault) ==
    IF ~b.is_open THEN
        IF b.accepted THEN Ok("done")
        ELSE IF past_hard_expiration_date(b, t).exc THEN Raise
        ELSE IF past_hard_expiration_date(b, t).val THEN Ok("expired")
        ELSE IF fault = "tips" THEN Raise
        ELSE IF has_tips(b, tps) THEN Ok("done")
        ELSE Ok("cancelled")
    ELSE IF b.num_fulfillments = 0 THEN
        IF b.pk /\ b.project_type \in {"contest", "cooperative"} THEN Ok("open")
        ELSE IF ~b.pk THEN Ok("open")
        ELSE IF fault = "interested" THEN Raise
        ELSE IF has_started_interest(ints) THEN Ok("started")
        ELSE Ok("open")
    ELSE Ok("submitted")

\* status_derived that finds every unsaved open Bounty 'open'
status_derived_unsaved_open(b, ints, tps, t, fault) ==
    IF ~b.is_open THEN
        IF b.accepted THEN Ok("done")
        ELSE IF past_hard_expiration_date(b, t).exc THEN Raise
        ELSE IF past_hard_expiration_date(b, t).val THEN Ok("expired")
        ELSE IF fault = "tips" THEN Raise
        ELSE IF has_tips(b, tps) THEN Ok("done")
        ELSE Ok("cancelled")
    ELSE IF ~b.pk THEN Ok("open")
    ELSE IF b.project_type \in {"contest", "cooperative"} THEN Ok("open")
    ELSE IF b.num_fulfillments = 0 THEN
        IF fault = "interested" THEN Raise
        ELSE IF has_started_interest(ints) THEN Ok("started")
        ELSE Ok("open")
    ELSE Ok("submitted")

\* the body of the try block of Bounty.status
status_derived(b, ints, tps, t, fault) ==
    IF ~b.is_open THEN
        IF b.accepted THEN Ok("done")
        ELSE IF past_hard_expiration_date(b, t).exc THEN Raise
        ELSE IF past_hard_expiration_date(b, t).val THEN Ok("expired")
        ELSE IF fault = "tips" THEN Raise
        ELSE IF has_tips(b, tps) THEN Ok("done")
        ELSE Ok("cancelled")
    ELSE IF b.pk /\ b.project_type \in {"contest", "cooperative"} THEN Ok("open")
    ELSE IF b.num_fulfillments = 0 THEN
        IF ~b.pk THEN Ok("open")
        ELSE IF fault = "interested" THEN Raise
        ELSE IF has_started_interest(ints) THEN Ok("started")
        ELSE Ok("open")
    ELSE Ok("submitted")

\* status with the legacy test ahead of the override test
status_legacy_first(b, ints, tps, t, fault) ==
    IF is_legacy(b) THEN b.idx_status
    ELSE IF b.override_status # "" THEN b.override_status
    ELSE IF status_derived(b, ints, tps, t, fault).exc THEN "unknown"
    ELSE status_derived(b, ints, tps, t, fault).val

\* status whose except branch answers with the cached idx_status
status_except_cached(b, ints, tps, t, fault) ==
    IF b.override_status # "" THEN b.override_status
    ELSE IF is_legacy(b) THEN b.idx_status
    ELSE IF status_derived(b, ints, tps, t, fault).exc THEN b.idx_status
    ELSE status_derived(b, ints, tps, t, fault).val

\* Bounty.status
status(b, ints, tps, t, fault) ==
    IF b.override_status # "" THEN b.override_status
    ELSE IF is_legacy(b) THEN b.idx_status
    ELSE IF status_derived(b, ints, tps, t, fault).exc THEN "unknown"
    ELSE status_derived(b, ints, tps, t, fault).val

(***************************************************************************)
(* Spec: the Bounty row.                                                   *)
(***************************************************************************)
\* A Bounty as constructed and not yet saved: the caller gives the fields
\* without a default; idx_status, num_fulfillments, accepted and
\* override_status start at their field defaults.
NewBounty(w, p, o, e, rd) ==
    [pk |-> FALSE, web3_type |-> w, override_status |-> "",
     is_open |-> o, accepted |-> FALSE, expires_date |-> e,
     raw_data |-> rd, project_type |-> p, num_fulfillments |-> 0,
     idx_status |-> "open", github_url |-> BountyUrl, network |-> "mainnet"]

\* no row is related to an instance that has no primary key
InitBounty ==
    /\ \E w \in Web3Types, p \in PROJECT_TYPES, o \in BOOLEAN, e \in Optional(ExpiresDates), rd \in RawDatas :
          bounty = NewBounty(w, p, o, e, rd)
    /\ interested = << >>
    /\ tips = {}
    /\ now = 0

\* psave_bounty: the idx_status column. The monetary columns it also writes
\* are not read by Bounty.status; they are psave_bounty_values, and SaveValued
\* is the save that writes both
psave_bounty(b, ints, tps, t, fault) ==
    [b EXCEPT !.idx_status = status(b, ints, tps, t, fault)]

\* Bounty.save: the pre_save hook runs, then the row is written; expires_date
\* is a column without null=True, the write of a None raises and inserts no row
SaveBounty(b, ints, tps, t, fault) ==
    [psave_bounty(b, ints, tps, t, fault) EXCEPT !.pk = b.pk \/ b.expires_date # {}]

Save ==
    /\ \E fault \in Faults : bounty' = SaveBounty(bounty, interested, tips, now, fault)
    /\ UNCHANGED <<interested, tips, now>>

\* An admin sets or clears override_status; the hook has not run yet
SetOverrideStatus ==
    /\ \E s \in OverrideStatuses :
          /\ s # bounty.override_status
          /\ bounty' = [bounty EXCEPT !.override_status = s]
    /\ UNCHANGED <<interested, tips, now>>

\* The lifecycle flags and the fulfillment count follow the contract's events;
\* the columns change, the hook has not run yet
SetFields ==
    /\ \E o \in BOOLEAN, a \in BOOLEAN, n \in 0..MaxFulfillments :
          /\ <<o, a, n>> # <<bounty.is_open, bounty.accepted, bounty.num_fulfillments>>
          /\ bounty' = [bounty EXCEPT !.is_open = o, !.accepted = a, !.num_fulfillments = n]
    /\ UNCHANGED <<interested, tips, now>>

\* psave_interest that saves no Bounty
psave_interest_no_save(b, ints, i, tps, t, fault) == b

\* psave_interest: every Bounty that references the Interest is saved
psave_interest(b, ints, i, tps, t, fault) ==
    IF i \in DOMAIN ints THEN SaveBounty(b, ints, tps, t, fault) ELSE b

\* bounty.interested.add(interest): a row of the relation, for a saved Bounty
AddInterest ==
    /\ bounty.pk
    /\ Len(interested) < MaxInterests
    /\ \E p \in BOOLEAN : interested' = Append(interested, [pending |-> p])
    /\ UNCHANGED <<bounty, tips, now>>

\* Interest.save after its pending flag changed, then the post_save receiver
SaveInterest ==
    /\ \E i \in DOMAIN interested, fault \in Faults :
          /\ interested' = [interested EXCEPT ![i].pending = ~interested[i].pending]
          /\ bounty' = psave_interest(bounty, interested', i, tips, now, fault)
    /\ UNCHANGED <<tips, now>>

\* A Tip row is created, funded (txid set) or not yet
CreateTip ==
    /\ Cardinality(tips) < MaxTips
    /\ \E r \in TipRows : r \notin tips /\ tips' = tips \cup {r}
    /\ UNCHANGED <<bounty, interested, now>>

\* The funding transaction id of a Tip row is recorded
FundTip ==
    /\ \E r \in tips :
          /\ r.txid = ""
          /\ tips' = (tips \ {r}) \cup {[r EXCEPT !.txid = "0xfund"]}
    /\ UNCHANGED <<bounty, interested, now>>

\* Time passes
Tick ==
    /\ now < MaxTime
    /\ now' = now + 1
    /\ UNCHANGED <<bounty, interested, tips>>

(***************************************************************************)
(* Tip payout.                                                             *)
(***************************************************************************)
\* Tip.status
tip_status(t) == IF t.receive_txid # "" THEN "RECEIVED" ELSE "PENDING"

Requests == 1..NumRequests

\* Tip.web3_type: the default, the older version, the legacy variant
TipWeb3Types == {"v3", "v2", "yge"}

TokenNames == {"ETH", "eth", "DAI"}

\* str.lower() on the token names
LowerToken(n) == IF n = "ETH" THEN "eth" ELSE n

\* Destination addresses a caller may pass: empty, the '0x0' placeholder, the
\* 20-byte zero address, an account address, a text that is no address
Addresses == {"", "0x0", "0x0000000000000000000000000000000000000000",
              "0x52908400098527886E0F7030069857D2E4169EE7", "not-an-address"}

\* Web3.toChecksumAddress raises ValueError unless given a 20-byte hex address
ChecksumOk(a) == a \in {"0x0000000000000000000000000000000000000000",
                        "0x52908400098527886E0F7030069857D2E4169EE7"}

\* a request that has not called payout_to yet; `self` is the Tip instance
\* the call runs on
IdleRequest == [pc |-> "idle", self |-> [web3_type |-> "v3", tokenName |-> "ETH", receive_txid |-> "", received_on |-> {}],
                address |-> "", exc |-> "", calls |-> << >>, is_erc20 |-> FALSE, result |-> ""]

\* a Tip row: not yet received, or received (receive_txid and received_on set)
InitTip ==
    /\ \E w \in TipWeb3Types, n \in TokenNames, rx \in {"", "0xpaid"} :
          tip = [web3_type |-> w, tokenName |-> n, receive_txid |-> rx,
                 received_on |-> IF rx = "" THEN {} ELSE {0}]
    /\ req = [r \in Requests |-> IdleRequest]
    /\ sent = {}

\* the transaction hash the broadcast of request r returns
TxHash(r) == IF r = 1 THEN "0xtx1" ELSE IF r = 2 THEN "0xtx2" ELSE "0xtx3"

\* payout_to_enter without the receive_txid check
payout_to_enter_no_receive_check(t, q, address) ==
    IF address = "" \/ address = "0x0"
        THEN [q EXCEPT !.pc = "raised", !.self = t, !.address = address, !.exc = "bad forwarding address"]
    ELSE IF t.web3_type = "yge"
        THEN [q EXCEPT !.pc = "raised", !.self = t, !.address = address, !.exc = "bad web3_type"]
    ELSE IF ~ChecksumOk(address)
        THEN [q EXCEPT !.pc = "raised", !.self = t, !.address = address, !.exc = "ValueError"]
    ELSE [q EXCEPT !.pc = "gas_price", !.self = t, !.address = address,
                   !.is_erc20 = (LowerToken(t.tokenName) # "eth"),
                   !.calls = Append(q.calls, "get_web3")]

\* payout_to_enter with the checksum conversion ahead of the receive_txid check
payout_to_enter_checksum_first(t, q, address) ==
    IF address = "" \/ address = "0x0"
        THEN [q EXCEPT !.pc = "raised", !.self = t, !.address = address, !.exc = "bad forwarding address"]
    ELSE IF t.web3_type = "yge"
        THEN [q EXCEPT !.pc = "raised", !.self = t, !.address = address, !.exc = "bad web3_type"]
    ELSE IF ~ChecksumOk(address)
        THEN [q EXCEPT !.pc = "raised", !.self = t, !.address = address, !.exc = "ValueError"]
    ELSE IF t.receive_txid # ""
        THEN [q EXCEPT !.pc = "raised", !.self = t, !.address = address, !.exc = "already received"]
    ELSE [q EXCEPT !.pc = "gas_price", !.self = t, !.address = address,
                   !.is_erc20 = (LowerToken(t.tokenName) # "eth"),
                   !.calls = Append(q.calls, "get_web3")]

\* payout_to_enter with the web3_type check ahead of the address check
payout_to_enter_type_first(t, q, address) ==
    IF t.web3_type = "yge"
        THEN [q EXCEPT !.pc = "raised", !.self = t, !.address = address, !.exc = "bad web3_type"]
    ELSE IF address = "" \/ address = "0x0"
        THEN [q EXCEPT !.pc = "raised", !.self = t, !.address = address, !.exc = "bad forwarding address"]
    ELSE IF t.receive_txid # ""
        THEN [q EXCEPT !.pc = "raised", !.self = t, !.address = address, !.exc = "already received"]
    ELSE IF ~ChecksumOk(address)
        THEN [q EXCEPT !.pc = "raised", !.self = t, !.address = address, !.exc = "ValueError"]
    ELSE [q EXCEPT !.pc = "gas_price", !.self = t, !.address = address,
                   !.is_erc20 = (LowerToken(t.tokenName) # "eth"),
                   !.calls = Append(q.calls, "get_web3")]

\* payout_to up to its first chain call: the three precondition checks, the
\* checksum conversion, get_web3
payout_to_enter(t, q, address) ==
    IF address = "" \/ address = "0x0"
        THEN [q EXCEPT !.pc = "raised", !.self = t, !.address = address, !.exc = "bad forwarding address"]
    ELSE IF t.web3_type = "yge"
        THEN [q EXCEPT !.pc = "raised", !.self = t, !.address = address, !.exc = "bad web3_type"]
    ELSE IF t.receive_txid # ""
        THEN [q EXCEPT !.pc = "raised", !.self = t, !.address = address, !.exc = "already received"]
    ELSE IF ~ChecksumOk(address)
        THEN [q EXCEPT !.pc = "raised", !.self = t, !.address = address, !.exc = "ValueError"]
    ELSE [q EXCEPT !.pc = "gas_price", !.self = t, !.address = address,
                   !.is_erc20 = (LowerToken(t.tokenName) # "eth"),
                   !.calls = Append(q.calls, "get_web3")]

PayoutCall(r) ==
    /\ req[r].pc = "idle"
    /\ \E address \in Addresses : req' = [req EXCEPT ![r] = payout_to_enter(tip, req[r], address)]
    /\ UNCHANGED <<tip, sent>>

\* one chain call of payout_to: from position `at` to position `to`
ChainCall(r, at, call, to) ==
    /\ req[r].pc = at
    /\ req' = [req EXCEPT ![r].pc = to, ![r].calls = Append(req[r].calls, call)]
    /\ UNCHANGED <<tip, sent>>

RecommendGasPrice(r) == ChainCall(r, "gas_price", "recommend_min_gas_price_to_confirm_in_time", "nonce")

\* GetTransactionCount followed by the balance read for every token
GetTransactionCount_then_balance(r) ==
    /\ req[r].pc = "nonce"
    /\ req' = [req EXCEPT ![r].pc = "balance",
                          ![r].calls = Append(req[r].calls, "getTransactionCount")]
    /\ UNCHANGED <<tip, sent>>

GetTransactionCount(r) ==
    /\ req[r].pc = "nonce"
    /\ req' = [req EXCEPT ![r].pc = IF req[r].is_erc20 THEN "balance" ELSE "sign",
                          ![r].calls = Append(req[r].calls, "getTransactionCount")]
    /\ UNCHANGED <<tip, sent>>

GetBalance(r) == ChainCall(r, "balance", "getBalance", "estimate")

EstimateGas(r) == ChainCall(r, "estimate", "estimateGas", "sign")

SignTransaction(r) == ChainCall(r, "sign", "signTransaction", "broadcast")

\* SendRawTransaction made exclusive: only the first broadcast for the Tip
\* goes through
SendRawTransaction_exclusive(r) ==
    /\ req[r].pc = "broadcast"
    /\ sent = {}
    /\ req' = [req EXCEPT ![r].pc = "returned", ![r].result = TxHash(r),
                          ![r].calls = Append(req[r].calls, "sendRawTransaction")]
    /\ sent' = sent \cup {TxHash(r)}
    /\ UNCHANGED tip

\* SendRawTransaction that also stores the hash on the Tip
SendRawTransaction_storing(r) ==
    /\ req[r].pc = "broadcast"
    /\ req' = [req EXCEPT ![r].pc = "returned", ![r].result = TxHash(r),
                          ![r].calls = Append(req[r].calls, "sendRawTransaction")]
    /\ sent' = sent \cup {TxHash(r)}
    /\ tip' = [tip EXCEPT !.receive_txid = TxHash(r)]

SendRawTransaction(r) ==
    /\ req[r].pc = "broadcast"
    /\ req' = [req EXCEPT ![r].pc = "returned", ![r].result = TxHash(r),
                          ![r].calls = Append(req[r].calls, "sendRawTransaction")]
    /\ sent' = sent \cup {TxHash(r)}
    /\ UNCHANGED tip

\* The caller stores the returned hash on the Tip and saves it
PersistReceipt(r) ==
    /\ req[r].pc = "returned"
    /\ tip' = [tip EXCEPT !.receive_txid = req[r].result]
    /\ req' = [req EXCEPT ![r].pc = "persisted"]
    /\ UNCHANGED sent

(***************************************************************************)
(* Valuation: decimal numbers.                                             *)
(***************************************************************************)
\* A number is m * 10^e, m without trailing zeros; 0 is m = 0, e = 0
RECURSIVE Norm(_, _)
Norm(m, e) ==
    IF m = 0 THEN [m |-> 0, e |-> 0]
    ELSE IF m % 10 = 0 THEN Norm(m \div 10, e + 1)
    ELSE [m |-> m, e |-> e]

Zero == Norm(0, 0)

RECURSIVE Pow10(_)
Pow10(k) == IF k = 0 THEN 1 ELSE 10 * Pow10(k - 1)

RECURSIVE Digits(_)
Digits(m) == IF m < 10 THEN 1 ELSE 1 + Digits(m \div 10)

\* m / 10^k rounded to an integer, ties to the even one; a mantissa has at most
\* ten digits and is below 5 * 10^9
RoundDiv(m, k) ==
    IF k = 0 THEN m
    ELSE IF k > 9 THEN 0
    ELSE LET q == m \div Pow10(k)
             r == m % Pow10(k)
             h == 5 * Pow10(k - 1)
         IN  IF r > h \/ (r = h /\ q % 2 = 1) THEN q + 1 ELSE q

\* x / 10**d and x * 10**d
Div10(x, d) == Norm(x.m, x.e - d)

Mul10(x, d) == Norm(x.m, x.e + d)

\* the product of x and a rate
Times(x, k) == Norm(x.m * k, x.e)

\* A Python float keeps 53 bits of mantissa, 15 to 17 decimal digits; the
\* float of the model keeps FloatDigits decimal digits, and the amounts of the
\* model are shorter by the same measure
FloatDigits == 2

\* float(x): x rounded to the digits a float keeps
float(x) ==
    IF Digits(x.m) <= FloatDigits THEN x
    ELSE Norm(RoundDiv(x.m, Digits(x.m) - FloatDigits), x.e + Digits(x.m) - FloatDigits)

\* round(x, 2)
round2(x) == IF x.e >= -2 THEN x ELSE Norm(RoundDiv(x.m, -2 - x.e), -2)

\* the value of an optional number that is not None
Val(o) == CHOOSE x \in o : TRUE

(***************************************************************************)
(* Valuation: the token registry and the rate service.                     *)
(***************************************************************************)
\* token names: the two stable tokens the valuation tests for, ETH, and a
\* token the registry does not know
Tokens == {"ETH", "USDT", "DAI", "XYZ"}

\* addr_to_token(token_address): the decimals of a registered token, None for
\* a token that is not registered
addr_to_token(tok) ==
    IF tok \in {"ETH", "DAI"} THEN {18}
    ELSE IF tok = "USDT" THEN {6}
    ELSE {}

\* the rates the service answers with for the token at hand: to USDT now, to
\* USDT at the creation timestamp, to ETH now
NowRate == 3

ThenRate == 2

EthRate == 5

\* the state of the rate service: {} is an epoch whose rates it does not find
RateTables == [now : Optional({NowRate}), then : Optional({ThenRate})]

\* the rate to ETH is a current rate
EthRateOf(r) == IF r.now = {} THEN {} ELSE {EthRate}

\* convert_amount(amount, from, to[, at]): the amount times the rate, or
\* ConversionRateNotFoundError (None here) when the rate is not found
convert_amount(x, rate) == IF rate = {} THEN {} ELSE {Times(x, Val(rate))}

\* convert_token_to_usdt(token[, at])
convert_token_to_usdt(rate) == IF rate = {} THEN {} ELSE {Norm(Val(rate), 0)}

(***************************************************************************)
(* Valuation of a Bounty.                                                  *)
(***************************************************************************)
OPEN_STATUSES == {"open", "started", "submitted"}

\* amounts of value_in_token: one base unit, two tokens of 18 decimals; the
\* Bounty was created before the clock of the model starts
ValueAmounts == {Norm(1, 0), Norm(2, 18)}

\* the monetary columns of a Bounty as constructed: the value columns start
\* at their field default 0, the time peg at None
NewMoney(tok, v) ==
    [token_name |-> tok, value_in_token |-> v, web3_created |-> -1,
     token_value_time_peg |-> {}, token_value_in_usdt |-> {Zero},
     value_in_usdt_now |-> {Zero}, value_in_usdt |-> {Zero}, value_in_eth |-> {Zero},
     value_true |-> {Zero}, val_usd_db |-> Zero, val_usd_db_now |-> Zero]

\* Bounty.get_natural_value
bounty_get_natural_value(tok, v) ==
    IF addr_to_token(tok) = {} THEN Zero
    ELSE Div10(float(v), Val(addr_to_token(tok)))

\* Bounty.get_value_in_eth
get_value_in_eth(m, r) ==
    IF m.token_name = "ETH" THEN {m.value_in_token}
    ELSE convert_amount(m.value_in_token, EthRateOf(r))

\* the body shared by get_value_in_usdt_now and value_in_usdt_then, for the
\* rate of the epoch
bounty_value_in_usdt_at(m, rate) ==
    IF m.token_name = "USDT" THEN {float(m.value_in_token)}
    ELSE IF m.token_name = "DAI" THEN {float(Div10(m.value_in_token, 18))}
    ELSE IF convert_amount(m.value_in_token, rate) = {} THEN {}
    ELSE {round2(Div10(float(Val(convert_amount(m.value_in_token, rate))), 18))}

\* Bounty.get_value_in_usdt_now
get_value_in_usdt_now(m, r) == bounty_value_in_usdt_at(m, r.now)

\* Bounty.value_in_usdt_then
value_in_usdt_then(m, r) == bounty_value_in_usdt_at(m, r.then)

\* get_value_in_usdt that prices every status at the creation timestamp
get_value_in_usdt_always_then(m, st, r) == value_in_usdt_then(m, r)

\* Bounty.get_value_in_usdt: for an open status the value_in_usdt_now column
\* as the instance holds it, not the property
get_value_in_usdt(m, st, r) ==
    IF st \in OPEN_STATUSES THEN m.value_in_usdt_now
    ELSE value_in_usdt_then(m, r)

\* Bounty.get_token_value_in_usdt
get_token_value_in_usdt(m, st, r) ==
    IF st \in OPEN_STATUSES THEN convert_token_to_usdt(r.now)
    ELSE convert_token_to_usdt(r.then)

\* Bounty.get_token_value_time_peg
get_token_value_time_peg(m, st, t) ==
    IF st \in OPEN_STATUSES THEN {t} ELSE {m.web3_created}

\* `x if x else 0`: None and 0 are both falsy
OrZero(o) == IF o = {} THEN Zero ELSE Val(o)

\* psave_bounty: the monetary columns, in the order the hook assigns them; st
\* is the status the instance resolves to during this save
psave_bounty_values(m, st, r, t) ==
    LET m1 == [m EXCEPT !.val_usd_db = OrZero(get_value_in_usdt(m, st, r)),
                        !.val_usd_db_now = OrZero(get_value_in_usdt_now(m, r)),
                        !.token_value_time_peg = get_token_value_time_peg(m, st, t),
                        !.token_value_in_usdt = get_token_value_in_usdt(m, st, r),
                        !.value_in_usdt_now = get_value_in_usdt_now(m, r)]
    IN  [m1 EXCEPT !.value_in_usdt = get_value_in_usdt(m1, st, r),
                   !.value_in_eth = get_value_in_eth(m1, r),
                   !.value_true = {bounty_get_natural_value(m1.token_name, m1.value_in_token)}]

\* Bounty.save with the monetary columns: the store answers alike to every
\* status derivation of one save
SaveValued ==
    /\ \E fault \in Faults :
          /\ bounty' = SaveBounty(bounty, interested, tips, now, fault)
          /\ money' = psave_bounty_values(money, status(bounty, interested, tips, now, fault), rates, now)
    /\ UNCHANGED <<interested, tips, now, rates>>

\* The rate service finds or loses a rate
SetRates ==
    /\ \E r \in RateTables : r # rates /\ rates' = r
    /\ UNCHANGED <<bounty, interested, tips, now, money>>

\* The lifecycle flags follow the contract's events; the columns change, the
\* hook has not run yet
SetLifecycle ==
    /\ \E o \in BOOLEAN, a \in BOOLEAN :
          /\ <<o, a>> # <<bounty.is_open, bounty.accepted>>
          /\ bounty' = [bounty EXCEPT !.is_open = o, !.accepted = a]
    /\ UNCHANGED <<interested, tips, now, money, rates>>

(***************************************************************************)
(* Valuation of a Tip, and the valuation properties applied to an amount.  *)
(***************************************************************************)
\* Tip.get_natural_value: token['decimals'] raises when the registry does not
\* know the token
tip_get_natural_value(tok, a) ==
    IF addr_to_token(tok) = {} THEN Raise
    ELSE Ok(Div10(float(a), Val(addr_to_token(tok))))

\* the body shared by Tip.value_in_usdt_now and Tip.value_in_usdt_then, for
\* the rate of the epoch; decimals = 1 divides by 1
tip_value_in_usdt_at(tok, a, rate) ==
    IF tok \in {"USDT", "DAI"} THEN {float(a)}
    ELSE IF convert_amount(a, rate) = {} THEN {}
    ELSE {round2(float(Val(convert_amount(a, rate))))}

\* Tip.value_in_usdt_now
tip_value_in_usdt_now(tok, a, r) == tip_value_in_usdt_at(tok, a, r.now)

\* Tip.value_in_usdt_then
tip_value_in_usdt_then(tok, a, r) == tip_value_in_usdt_at(tok, a, r.then)

\* Tip.value_in_usdt
tip_value_in_usdt(tok, a, r) == tip_value_in_usdt_then(tok, a, r)

\* amounts in base units: short ones, and whole tokens of 18 decimals
Amounts == {Norm(m, e) : m \in 0..MaxMantissa, e \in {0, 18}}

\* a Bounty or a Tip with its token and amount; no property read yet
InitCalc ==
    \E k \in {"bounty", "tip"}, tok \in Tokens, a \in Amounts :
        calc = [pc |-> "new", entity |-> k, token |-> tok, amount |-> a,
                natural |-> {}, usdt_now |-> {}, usdt |-> {}]

\* get_natural_value() is called
GetNaturalValue ==
    /\ calc.natural = {}
    /\ calc' = [calc EXCEPT !.pc = "read", !.natural =
                  {IF calc.entity = "tip" THEN tip_get_natural_value(calc.token, calc.amount)
                   ELSE Ok(bounty_get_natural_value(calc.token, calc.amount))}]
    /\ UNCHANGED rates

\* Tip.value_in_usdt_now, Bounty.get_value_in_usdt_now is read
ValueInUsdtNow ==
    /\ calc.usdt_now = {}
    /\ calc' = [calc EXCEPT !.pc = "read", !.usdt_now =
                  {IF calc.entity = "tip" THEN tip_value_in_usdt_now(calc.token, calc.amount, rates)
                   ELSE get_value_in_usdt_now([token_name |-> calc.token, value_in_token |-> calc.amount], rates)}]
    /\ UNCHANGED rates

\* Tip.value_in_usdt, Bounty.value_in_usdt_then is read
ValueInUsdt ==
    /\ calc.usdt = {}
    /\ calc' = [calc EXCEPT !.pc = "read", !.usdt =
                  {IF calc.entity = "tip" THEN tip_value_in_usdt(calc.token, calc.amount, rates)
                   ELSE value_in_usdt_then([token_name |-> calc.token, value_in_token |-> calc.amount], rates)}]
    /\ UNCHANGED rates

(***************************************************************************)
(* Specifications.                                                         *)
(***************************************************************************)
\* the monetary columns and the rate service while they are not exercised
ValueAtRest ==
    /\ money = NewMoney("ETH", Norm(1, 0))
    /\ rates = [now |-> {NowRate}, then |-> {ThenRate}]
    /\ calc = [pc |-> "rest"]

\* the Tip and the requests while only the Bounty is exercised
TipAtRest ==
    /\ tip = [web3_type |-> "v3", tokenName |-> "ETH", receive_txid |-> "", received_on |-> {}]
    /\ req = [r \in Requests |-> IdleRequest]
    /\ sent = {}

\* the Bounty while only the payout is exercised
BountyAtRest ==
    /\ bounty = NewBounty("bounties_network", "traditional", TRUE, {0}, [contract_deadline |-> {}, ipfs_deadline |-> {}])
    /\ interested = << >>
    /\ tips = {}
    /\ now = 0

Init == InitBounty /\ TipAtRest /\ ValueAtRest

Next ==
    /\ Save \/ SetOverrideStatus \/ SetFields \/ Tick \/ AddInterest \/ SaveInterest
    /\ UNCHANGED <<payoutVars, valueVars>>

Spec == Init /\ [][Next]_vars

NextTips ==
    /\ Save \/ SetOverrideStatus \/ SetFields \/ Tick \/ CreateTip \/ FundTip
    /\ UNCHANGED <<payoutVars, valueVars>>

\* the Bounty was constructed with an expiry date
InitTips == Init /\ bounty.expires_date # {}

SpecTips == InitTips /\ [][NextTips]_vars

InitPayout == BountyAtRest /\ InitTip /\ ValueAtRest

NextRequest(r) ==
    \/ PayoutCall(r)
    \/ RecommendGasPrice(r)
    \/ GetTransactionCount(r)
    \/ GetBalance(r)
    \/ EstimateGas(r)
    \/ SignTransaction(r)
    \/ SendRawTransaction(r)
    \/ PersistReceipt(r)

NextPayout == (\E r \in Requests : NextRequest(r)) /\ UNCHANGED <<bountyVars, valueVars>>

SpecPayout == InitPayout /\ [][NextPayout]_vars

\* a Bounty constructed with an expiry date and no deadline data, a token and
\* an amount; the rate service in any state
InitValue ==
    /\ \E w \in Web3Types, o \in BOOLEAN :
          bounty = NewBounty(w, "traditional", o, {0}, [contract_deadline |-> {}, ipfs_deadline |-> {}])
    /\ interested = << >>
    /\ tips = {}
    /\ now = 0
    /\ \E tok \in Tokens, v \in ValueAmounts : money = NewMoney(tok, v)
    /\ rates \in RateTables
    /\ calc = [pc |-> "rest"]
    /\ TipAtRest

NextValue ==
    /\ \/ SaveValued
       \/ SetRates
       \/ SetLifecycle
       \/ SetOverrideStatus /\ UNCHANGED <<money, rates>>
    /\ UNCHANGED <<payoutVars, calc>>

SpecValue == InitValue /\ [][NextValue]_vars

InitNatural ==
    /\ BountyAtRest /\ TipAtRest
    /\ money = NewMoney("ETH", Norm(1, 0))
    /\ rates \in RateTables
    /\ InitCalc

NextNatural ==
    /\ GetNaturalValue \/ ValueInUsdtNow \/ ValueInUsdt
    /\ UNCHANGED <<bountyVars, payoutVars, money>>

SpecNatural == InitNatural /\ [][NextNatural]_vars

\* raw_data as ingested: each deadline absent or any timestamp, 0 included
IngestedRawDatas ==
    [contract_deadline : Optional(0..MaxDeadline), ipfs_deadline : Optional(0..MaxDeadline)]

\* a Bounty as constructed, nothing read from it yet
InitLate ==
    /\ \E w \in Web3Types, p \in PROJECT_TYPES, o \in BOOLEAN, rd \in IngestedRawDatas :
          bounty = NewBounty(w, p, o, {0}, rd)
    /\ interested = << >>
    /\ tips = {}
    /\ now = 0
    /\ TipAtRest
    /\ money = NewMoney("ETH", Norm(1, 0))
    /\ rates = [now |-> {NowRate}, then |-> {ThenRate}]
    /\ calc = [pc |-> "new", result |-> {}]

\* can_submit_after_expiration_date is read
CanSubmitAfterExpirationDate ==
    /\ calc.pc = "new"
    /\ calc' = [pc |-> "read", result |-> {can_submit_after_expiration_date(bounty)}]
    /\ UNCHANGED <<bountyVars, payoutVars, money, rates>>

NextLate == CanSubmitAfterExpirationDate

SpecLate == InitLate /\ [][NextLate]_vars

(***************************************************************************)
(* Tip.payout_to: the amounts it computes.  Wei are counted in small       *)
(* numbers; the float of balance * 1.0 / gas keeps FloatDigits digits.     *)
(***************************************************************************)
\* the largest recommended gas price, in wei
MaxGasPrice == 12

\* the largest native balance of the escrow, in wei
MaxBalance == 23

\* the largest gas estimate of a token transfer
MaxEstimate == 1

\* gas = 100000 of a native transfer
GasLimit == 100000

\* int(tip.amount_in_wei), int(amount_override): below and above any fee
WeiAmounts == {1, 2 * GasLimit * MaxGasPrice}

\* int(x) of a number that is not negative: the fraction is cut off
int(x) == IF x.e >= 0 THEN x.m * Pow10(x.e) ELSE x.m \div Pow10(-x.e)

\* a * 1.0 / b in floats, a >= 0 and b > 0: a is rounded to a float, and the
\* quotient to the digits a float keeps, ties to the even one
float_div(a, b) ==
    LET fa == float(Norm(a, 0))
        n  == fa.m * Pow10(4)
        q  == n \div b
        s  == n % b
        d  == Digits(q) - FloatDigits
        hi == q \div Pow10(d)
        lo == q % Pow10(d)
        h  == 5 * Pow10(d - 1)
        up == lo > h \/ (lo = h /\ s > 0) \/ (lo = h /\ s = 0 /\ hi % 2 = 1)
    IN  IF fa.m = 0 THEN Zero
        ELSE IF d <= 0 THEN Norm(q, fa.e - 4)
        ELSE Norm(IF up THEN hi + 1 ELSE hi, fa.e - 4 + d)

\* a payout that passed the checks of its entry, nothing computed yet
InitGas ==
    /\ BountyAtRest /\ TipAtRest
    /\ money = NewMoney("ETH", Norm(1, 0))
    /\ rates = [now |-> {NowRate}, then |-> {ThenRate}]
    /\ \E erc20 \in BOOLEAN, a \in WeiAmounts, o \in Optional({0} \cup WeiAmounts) :
          calc = [pc |-> "new", is_erc20 |-> erc20, amount_in_wei |-> a, amount_override |-> o,
                  amount |-> {}, gasPrice |-> {}, balance |-> {}, tx |-> {}]

\* amount and gasPrice; the recommended price times 10**9 is price wei
PriceGas ==
    /\ calc.pc = "new"
    /\ \E price \in 1..MaxGasPrice :
          calc' = [calc EXCEPT
                     !.pc = "priced",
                     !.amount = IF calc.amount_override \in {{}, {0}}
                                THEN {calc.amount_in_wei} ELSE calc.amount_override,
                     !.gasPrice = {Norm(price, 0)}]

\* the token branch: the balance is read, the gas estimated, the price capped
BuildErc20 ==
    /\ calc.pc = "priced" /\ calc.is_erc20
    /\ \E balance \in 0..MaxBalance, estimate \in 0..MaxEstimate :
          LET gas   == estimate + 1
              price == Val(calc.gasPrice)
              used  == IF gas * int(price) < balance THEN price ELSE float_div(balance, gas)
          IN  calc' = [calc EXCEPT
                         !.pc = "built", !.balance = {balance}, !.gasPrice = {used},
                         !.tx = {[gas |-> gas, gasPrice |-> int(used), value |-> 0]}]

\* the native branch: the fee is taken from the amount
BuildEth ==
    /\ calc.pc = "priced" /\ ~calc.is_erc20
    /\ LET gas    == GasLimit
           amount == Val(calc.amount) - gas * int(Val(calc.gasPrice))
       IN  calc' = [calc EXCEPT
                      !.pc = "built", !.amount = {amount},
                      !.tx = {[gas |-> gas, gasPrice |-> int(Val(calc.gasPrice)), value |-> amount]}]

\* w3.eth.account.signTransaction(tx, priv_key)
signTransaction ==
    /\ calc.pc = "built"
    /\ calc' = [calc EXCEPT !.pc = "signed"]

\* w3.eth.sendRawTransaction(signed.rawTransaction)
sendRawTransaction ==
    /\ calc.pc = "signed"
    /\ calc' = [calc EXCEPT !.pc = "sent"]

NextGas ==
    /\ PriceGas \/ BuildErc20 \/ BuildEth \/ signTransaction \/ sendRawTransaction
    /\ UNCHANGED <<bountyVars, payoutVars, money, rates>>

SpecGas == InitGas /\ [][NextGas]_vars

(***************************************************************************)
(* The fulfillment timestamp caches of a Bounty.                           *)
(***************************************************************************)
\* the most fulfillments, and the most Interests, of the Bounty
MaxRows == 2

\* Bounty.get_fulfillment_accepted_on: the rows in the order .first() takes
\* them, that of their primary keys; None when there is no accepted row
get_fulfillment_accepted_on(fs) ==
    LET acc == SelectSeq(fs, LAMBDA f : f.accepted)
    IN  IF acc = << >> THEN {} ELSE Head(acc).accepted_on

\* Bounty.get_fulfillment_submitted_on
get_fulfillment_submitted_on(fs) == IF fs = << >> THEN {} ELSE {Head(fs).created_on}

\* Bounty.get_fulfillment_started_on; a query that raises gives None
get_fulfillment_started_on(ints, fault) ==
    IF fault = "interested" \/ ints = << >> THEN {} ELSE {Head(ints).created}

\* an unsaved open Bounty without fulfillments and Interests
InitCaches ==
    /\ \E p \in PROJECT_TYPES :
          bounty = NewBounty("bounties_network", p, TRUE, {0}, [contract_deadline |-> {}, ipfs_deadline |-> {}])
    /\ interested = << >>
    /\ tips = {}
    /\ now = 0
    /\ TipAtRest
    /\ money = NewMoney("ETH", Norm(1, 0))
    /\ rates = [now |-> {NowRate}, then |-> {ThenRate}]
    /\ calc = [pc |-> "new", fault |-> "none", fulfillments |-> << >>,
               fulfillment_accepted_on |-> {}, fulfillment_submitted_on |-> {},
               fulfillment_started_on |-> {}]

\* a BountyFulfillment of the saved Bounty is created, accepted or not
CreateFulfillment ==
    /\ bounty.pk
    /\ Len(calc.fulfillments) < MaxRows
    /\ \E a \in BOOLEAN :
          calc' = [calc EXCEPT
                     !.pc = "changed",
                     !.fulfillments = Append(@, [accepted |-> a, created_on |-> now,
                                                 accepted_on |-> IF a THEN {now} ELSE {}])]
    /\ UNCHANGED <<bounty, interested, tips, now>>

\* an Interest is created and added to the saved Bounty, pending or not
CreateInterest ==
    /\ bounty.pk
    /\ Len(interested) < MaxRows
    /\ \E p \in BOOLEAN : interested' = Append(interested, [pending |-> p, created |-> now])
    /\ calc' = [calc EXCEPT !.pc = "changed"]
    /\ UNCHANGED <<bounty, tips, now>>

\* Bounty.save: the hook writes the status and the three timestamp caches
SaveCaches ==
    /\ \E fault \in Faults :
          /\ bounty' = SaveBounty(bounty, interested, tips, now, fault)
          /\ calc' = [calc EXCEPT
                        !.pc = "saved", !.fault = fault,
                        !.fulfillment_accepted_on = get_fulfillment_accepted_on(calc.fulfillments),
                        !.fulfillment_submitted_on = get_fulfillment_submitted_on(calc.fulfillments),
                        !.fulfillment_started_on = get_fulfillment_started_on(interested, fault)]
    /\ UNCHANGED <<interested, tips, now>>

\* time passes
TickCaches == Tick /\ calc' = [calc EXCEPT !.pc = "changed"]

NextCaches ==
    /\ CreateFulfillment \/ CreateInterest \/ SaveCaches \/ TickCaches
    /\ UNCHANGED <<payoutVars, money, rates>>

SpecCaches == InitCaches /\ [][NextCaches]_vars

(***************************************************************************)
(* Interest.change_status.                                                 *)
(***************************************************************************)
\* a Python string, and a pair of strings, as values that can be compared
Str(v) == [kind |-> "str", v |-> v, label |-> ""]

Pair(v, label) == [kind |-> "tuple", v |-> v, label |-> label]

\* Interest.WORK_STATUSES: a tuple of (value, label) pairs
WORK_STATUSES ==
    {Pair("review", "Needs Review"), Pair("warned", "Hunter Warned"), Pair("okay", "Okay"),
     Pair("snoozed", "Snoozed"), Pair("pending", "Pending")}

\* the five status values
WorkStatusValues == {"review", "warned", "okay", "snoozed", "pending"}

\* the arguments of change_status: None, the status values, another string
\* and a pair of WORK_STATUSES
StatusArgs ==
    {{}} \cup {{Str(v)} : v \in WorkStatusValues \cup {"done"}} \cup {{Pair("review", "Needs Review")}}

\* a Bounty and the one Interest it references, status as constructed or set
InitInterest ==
    /\ \E w \in Web3Types, p \in PROJECT_TYPES, o \in BOOLEAN :
          bounty = SaveBounty(NewBounty(w, p, o, {0}, [contract_deadline |-> {}, ipfs_deadline |-> {}]),
                              << >>, {}, 0, "none")
    /\ \E pd \in BOOLEAN, v \in WorkStatusValues :
          interested = <<[pending |-> pd, status |-> Str(v)]>>
    /\ tips = {}
    /\ now = 0
    /\ TipAtRest
    /\ money = NewMoney("ETH", Norm(1, 0))
    /\ rates = [now |-> {NowRate}, then |-> {ThenRate}]
    /\ calc = [pc |-> "new", status |-> {}, before |-> Str("okay"), saved |-> FALSE]

\* interest.change_status(status)
change_status ==
    /\ \E s \in StatusArgs, fault \in Faults :
          IF s = {} \/ Val(s) \notin WORK_STATUSES
          THEN /\ calc' = [pc |-> "returned", status |-> s,
                           before |-> interested[1].status, saved |-> FALSE]
               /\ UNCHANGED <<bounty, interested>>
          ELSE /\ interested' = [interested EXCEPT ![1].status = Val(s)]
               /\ bounty' = psave_interest(bounty, interested', 1, tips, now, fault)
               /\ calc' = [pc |-> "returned", status |-> s,
                           before |-> interested[1].status, saved |-> TRUE]
    /\ UNCHANGED <<tips, now>>

\* interest.mark_for_review()
mark_for_review ==
    /\ \E fault \in Faults :
          /\ interested' = [interested EXCEPT ![1].status = Str("review")]
          /\ bounty' = psave_interest(bounty, interested', 1, tips, now, fault)
    /\ calc' = [pc |-> "marked", status |-> {}, before |-> interested[1].status, saved |-> TRUE]
    /\ UNCHANGED <<tips, now>>

NextInterest ==
    /\ change_status \/ mark_for_review
    /\ UNCHANGED <<payoutVars, money, rates>>

SpecInterest == InitInterest /\ [][NextInterest]_vars

(***************************************************************************)
(* The revision rows of one standard_bounties_id and Bounty.was_active_at. *)
(***************************************************************************)
\* the latest timestamp of a revision
MaxStamp == 2

\* the most revision rows of one standard_bounties_id
MaxRevisions == 3

\* the rows a revision may be
Revisions == [created_on : 0..MaxStamp, web3_created : 0..MaxStamp, current_bounty : BOOLEAN]

\* the row of rows with the latest created_on
Latest(rows) == CHOOSE x \in rows : \A y \in rows : y.created_on <= x.created_on

\* the row of rows with the earliest created_on
Earliest(rows) == CHOOSE x \in rows : \A y \in rows : x.created_on <= y.created_on

\* the tables of revision rows: created_on pairwise distinct, current_bounty
\* on no row but the most recent one
RevisionTables ==
    UNION {{{[created_on |-> c, web3_created |-> w[c],
              current_bounty |-> cur /\ \A d \in C : d <= c] : c \in C} :
                w \in [C -> 0..MaxStamp], cur \in BOOLEAN} :
           C \in {D \in SUBSET (0..MaxStamp) : Cardinality(D) <= MaxRevisions}}

\* next_bounty that takes the latest of the later revisions
next_bounty_latest(rows, r, fault) ==
    IF r.current_bounty \/ fault THEN {}
    ELSE LET later == {x \in rows : x.created_on > r.created_on}
         IN  IF later = {} THEN {} ELSE {Latest(later)}

\* Bounty.next_bounty: None for the current revision, else the first of the
\* revisions created later, None when there is none or the query raises
next_bounty(rows, r, fault) ==
    IF r.current_bounty \/ fault THEN {}
    ELSE LET later == {x \in rows : x.created_on > r.created_on}
         IN  IF later = {} THEN {} ELSE {Earliest(later)}

\* Bounty.was_active_at(_time)
was_active_at(rows, r, t, fault) ==
    IF t < r.web3_created THEN FALSE
    ELSE IF t < r.created_on THEN FALSE
    ELSE LET nb == next_bounty(rows, r, fault)
         IN  IF nb = {} THEN TRUE
             ELSE IF Val(nb).created_on > t THEN TRUE
             ELSE FALSE

\* the revision rows of one standard_bounties_id, nothing asked yet
InitRevisions ==
    /\ BountyAtRest /\ TipAtRest
    /\ money = NewMoney("ETH", Norm(1, 0))
    /\ rates = [now |-> {NowRate}, then |-> {ThenRate}]
    /\ \E rows \in RevisionTables :
          calc = [pc |-> "new", rows |-> rows, time |-> 0, fault |-> FALSE, active |-> {}]

\* was_active_at(t) is asked of every revision; the store answers or fails
WasActiveAt ==
    /\ \E t \in 0..(MaxStamp + 1), fault \in BOOLEAN :
          calc' = [calc EXCEPT
                     !.pc = "asked", !.time = t, !.fault = fault,
                     !.active = {r \in calc.rows : was_active_at(calc.rows, r, t, fault)}]
    /\ UNCHANGED <<bountyVars, payoutVars, money, rates>>

NextRevisions == WasActiveAt

SpecRevisions == InitRevisions /\ [][NextRevisions]_vars

(***************************************************************************)
(* Properties of the status resolver (checked under Spec; those that read  *)
(* the Tip table of the state under SpecTips).                             *)
(***************************************************************************)
\* the status Bounty.status returns in the current state under a store fault
Resolved(fault) == status(bounty, interested, tips, now, fault)

\* the last save wrote the status the Bounty resolves to now
SavedAsResolved == bounty.pk /\ bounty.idx_status = Resolved("none")

Derived == ~is_legacy(bounty) /\ bounty.override_status = ""

\* every content of the Tip table
TipTables == {T \in SUBSET TipRows : Cardinality(T) <= MaxTips}

\* a Tip table without and one with the Bounty's crowdfunding Tip
FundedOrNot == {{}, {MatchingTip}}

\* some Interest related to the Bounty has pending = false
SomeInterestNotPending == \E i \in 1..Len(interested) : interested[i].pending = FALSE

\* a funded Tip that is not for the fulfiller, on the Bounty's url and network
SomeFundedTip ==
    \E r \in tips : /\ r.github_url \in {"https://github.com/o/r/issues/1", "https://github.com/O/R/issues/1"}
                     /\ r.network = bounty.network /\ ~r.is_for_bounty_fulfiller /\ r.txid # ""

\* C1: a Bounty whose override_status is non-empty resolves to that string,
\* whatever its other fields, its Interests, the Tip table, the time and the
\* state of the store.
C1_OverrideWins ==
    bounty.override_status # "" =>
        \A f \in Faults, T \in TipTables :
            status(bounty, interested, T, now, f) = bounty.override_status

\* C1 witness: a closed, accepted legacy Bounty saved under an override
C1_Witness ==
    /\ bounty.override_status = "hidden" /\ SavedAsResolved
    /\ is_legacy(bounty) /\ ~bounty.is_open /\ bounty.accepted

\* C2 as stated: every Bounty with is_open = false and accepted = true
\* resolves to 'done'.
C2_Original ==
    (~bounty.is_open /\ bounty.accepted) => \A f \in Faults : Resolved(f) = "done"

\* C2 amended: a non-legacy Bounty with empty override_status, is_open = false
\* and accepted = true resolves to 'done'.
C2_ClosedAcceptedDone ==
    (Derived /\ ~bounty.is_open /\ bounty.accepted) =>
        \A f \in Faults, T \in TipTables : status(bounty, interested, T, now, f) = "done"

\* C2 witness: such a Bounty, past its hard expiration, saved as 'done'
C2_Witness ==
    /\ Derived /\ ~bounty.is_open /\ bounty.accepted /\ SavedAsResolved
    /\ past_hard_expiration_date(bounty, now) = Ok(TRUE)

HardExpired == past_hard_expiration_date(bounty, now) = Ok(TRUE)

\* C3 as stated: every Bounty with is_open = false and accepted = false that
\* is past hard expiration resolves to 'expired'.
C3_Original ==
    (~bounty.is_open /\ ~bounty.accepted /\ HardExpired)
        => \A f \in Faults : Resolved(f) = "expired"

\* C3 amended: a Bounty with empty override_status, is_open = false and
\* accepted = false that is past hard expiration resolves to 'expired', also
\* when a funded non-fulfiller Tip matches it.
C3_ClosedExpired ==
    (bounty.override_status = "" /\ ~bounty.is_open /\ ~bounty.accepted /\ HardExpired)
        => \A f \in Faults : Resolved(f) = "expired"

\* C3 witness: such a Bounty with a funded crowdfunding Tip, saved as 'expired'
C3_Witness ==
    /\ bounty.override_status = "" /\ ~bounty.is_open /\ ~bounty.accepted /\ HardExpired
    /\ SomeFundedTip /\ SavedAsResolved /\ bounty.idx_status = "expired"

OpenTraditionalUnfulfilled ==
    bounty.is_open /\ bounty.num_fulfillments = 0 /\ bounty.project_type = "traditional"

\* C4 as stated: every open traditional Bounty with zero fulfillments and no
\* Interest with pending = false resolves to 'open'.
C4_Original ==
    (OpenTraditionalUnfulfilled /\ ~SomeInterestNotPending)
        => \A f \in Faults : Resolved(f) = "open"

\* C4 amended: a non-legacy Bounty with empty override_status that is open,
\* traditional, has zero fulfillments and no Interest with pending = false
\* resolves to 'open' whenever the Interest query does not raise.
C4_OpenWithoutStartedInterest ==
    (Derived /\ OpenTraditionalUnfulfilled /\ ~SomeInterestNotPending)
        => \A f \in Faults \ {"interested"} : Resolved(f) = "open"

\* C4 witness: such a Bounty with a pending Interest, saved as 'open'
C4_Witness ==
    /\ Derived /\ OpenTraditionalUnfulfilled /\ SavedAsResolved
    /\ Len(interested) > 0 /\ ~SomeInterestNotPending

\* C5 as stated: every open traditional Bounty with zero fulfillments and an
\* Interest with pending = false resolves to 'started'.
C5_Original ==
    (OpenTraditionalUnfulfilled /\ SomeInterestNotPending)
        => \A f \in Faults : Resolved(f) = "started"

\* C5 amended: a non-legacy Bounty with empty override_status that is open,
\* traditional, has zero fulfillments and an Interest with pending = false
\* resolves to 'started' whenever the Interest query does not raise.
C5_StartedWithInterest ==
    (Derived /\ OpenTraditionalUnfulfilled /\ SomeInterestNotPending)
        => \A f \in Faults \ {"interested"} : Resolved(f) = "started"

\* C5 witness: such a Bounty saved as 'started'
C5_Witness ==
    /\ Derived /\ OpenTraditionalUnfulfilled /\ SomeInterestNotPending
    /\ SavedAsResolved /\ bounty.idx_status = "started"

OpenContest == bounty.pk /\ bounty.is_open /\ bounty.project_type \in {"contest", "cooperative"}

\* C6 as stated: every persisted open Bounty of type contest or cooperative
\* resolves to 'open'.
C6_Original ==
    OpenContest => \A f \in Faults : Resolved(f) = "open"

\* C6 amended: a persisted non-legacy Bounty with empty override_status that
\* is open and of type contest or cooperative resolves to 'open', for every
\* fulfillment count and every set of Interests.
C6_ContestOpen ==
    (Derived /\ OpenContest) => \A f \in Faults : Resolved(f) = "open"

\* C6 witness: such a Bounty with a fulfillment and a started Interest, saved
C6_Witness ==
    /\ Derived /\ OpenContest /\ SavedAsResolved
    /\ bounty.num_fulfillments > 0 /\ SomeInterestNotPending

\* C7: the cached idx_status is always one of the seven STATUS_CHOICES.
C7_IdxStatusEnumerated == bounty.idx_status \in STATUS_CHOICES

(***************************************************************************)
(* Properties of the payout (checked under SpecPayout).                    *)
(***************************************************************************)
Called(r, call) == \E k \in 1..Len(req[r].calls) : req[r].calls[k] = call

AlreadyReceived(r) == req[r].pc # "idle" /\ req[r].self.receive_txid # ""

\* C9 as stated: payout_to on a Tip whose receive_txid is set raises 'already
\* received' for every address and web3_type, and never broadcasts.
C9_Original ==
    \A r \in Requests :
        AlreadyReceived(r) =>
            /\ req[r].pc = "raised" /\ req[r].exc = "already received"
            /\ ~Called(r, "sendRawTransaction")

\* C9 amended: payout_to on a Tip whose receive_txid is set always raises
\* TipPayoutException and never broadcasts; the reason is 'already received'
\* when the address is non-empty and not '0x0' and web3_type is not 'yge',
\* and the reason of the address or web3_type check otherwise.
C9_AlreadyReceivedRaises ==
    \A r \in Requests :
        AlreadyReceived(r) =>
            /\ req[r].pc = "raised"
            /\ ~Called(r, "sendRawTransaction")
            /\ req[r].exc = IF req[r].address \in {"", "0x0"} THEN "bad forwarding address"
                            ELSE IF req[r].self.web3_type = "yge" THEN "bad web3_type"
                            ELSE "already received"

\* C9 witness: a call with a text that is no address, on a received Tip
C9_Witness ==
    \E r \in Requests :
        /\ AlreadyReceived(r) /\ req[r].address = "not-an-address"
        /\ req[r].exc = "already received"

\* C10: payout_to with address '0x0' raises 'bad forwarding address' and has
\* made no chain call.
C10_NullAddressRaises ==
    \A r \in Requests :
        (req[r].pc # "idle" /\ req[r].address = "0x0") =>
            /\ req[r].pc = "raised" /\ req[r].exc = "bad forwarding address"
            /\ req[r].calls = << >>

\* C10 witness: a call with '0x0' on a received 'yge' Tip
C10_Witness ==
    \E r \in Requests :
        /\ req[r].pc = "raised" /\ req[r].address = "0x0"
        /\ req[r].self.web3_type = "yge" /\ req[r].self.receive_txid # ""

\* C11: payout_to has no mutual exclusion: a request that has passed the
\* checks and reached the broadcast is never held back by what another request
\* did, so two requests that both saw receive_txid empty both broadcast.
C11_NoMutualExclusion ==
    \A r \in Requests : req[r].pc = "broadcast" => ENABLED SendRawTransaction(r)

\* C11 witness: both requests saw receive_txid empty and both have broadcast
C11_Witness ==
    /\ \A r \in {1, 2} : /\ req[r].pc \in {"returned", "persisted"}
                         /\ req[r].self.receive_txid = ""
                         /\ Called(r, "sendRawTransaction")
    /\ {TxHash(1), TxHash(2)} \subseteq sent

NonePersisted == \A r \in Requests : req[r].pc # "persisted"

\* C12: payout_to writes no field of the Tip: until a caller persists a
\* returned hash the Tip is as every call found it, raised or returned, and a
\* Tip that was pending is still 'PENDING' after the broadcast.
C12_PayoutWritesNothing ==
    \A r \in Requests :
        (NonePersisted /\ req[r].pc # "idle") =>
            /\ tip = req[r].self
            /\ tip_status(tip) = IF req[r].self.receive_txid = "" THEN "PENDING" ELSE "RECEIVED"

\* C12 witness: a broadcast has returned and the Tip is still pending
C12_Witness ==
    /\ NonePersisted
    /\ \E r \in Requests : req[r].pc = "returned" /\ TxHash(r) \in sent
    /\ \E r \in Requests : req[r].pc = "raised"
    /\ tip.receive_txid = "" /\ tip.received_on = {} /\ tip_status(tip) = "PENDING"

\* a step that saves an Interest: a row of the relation changes
InterestSaved == Len(interested') = Len(interested) /\ interested' # interested

\* C13 as stated: after an Interest is saved the Bounty's idx_status is its
\* resolved status, and every open, persisted, traditional Bounty with zero
\* fulfillments and idx_status 'open' is 'started' once the Interest is saved
\* with pending = false.
C13_Original ==
    [][InterestSaved =>
        /\ bounty'.idx_status = status(bounty', interested', tips', now', "none")
        /\ (/\ OpenTraditionalUnfulfilled /\ bounty.pk /\ bounty.idx_status = "open"
            /\ \E i \in 1..Len(interested') : interested'[i].pending = FALSE)
               => bounty'.idx_status = "started"]_vars

\* C13 amended: after an Interest is saved the Bounty's idx_status is the
\* status resolved during that save; a non-legacy, open, persisted,
\* traditional Bounty with empty override_status and zero fulfillments whose
\* Interest is saved with pending = false is 'started' afterwards, or
\* 'unknown' when the Interest query raised.
C13_InterestSaveRefreshesStatus ==
    [][InterestSaved =>
        /\ bounty'.idx_status \in {status(bounty', interested', tips', now', f) : f \in Faults}
        /\ (/\ Derived /\ OpenTraditionalUnfulfilled /\ bounty.pk
            /\ \E i \in 1..Len(interested') : interested'[i].pending = FALSE)
               => bounty'.idx_status \in {"started", "unknown"}]_vars

\* C13 witness: such a Bounty, saved as 'started', with its Interest not
\* pending
C13_Witness ==
    /\ Derived /\ OpenTraditionalUnfulfilled /\ bounty.pk /\ SomeInterestNotPending
    /\ bounty.idx_status = "started"

\* the comparison of the clock with expires_date fails
ExpiryFails == bounty.expires_date = {}

\* the comparison of contract_deadline with ipfs_deadline is made and fails
DeadlineFails ==
    /\ bounty.expires_date # {} /\ \A e \in bounty.expires_date : now > e
    /\ bounty.raw_data.ipfs_deadline \notin {{}, {0}}
    /\ bounty.raw_data.contract_deadline = {}

\* a lookup that the derivation makes fails, f being the failure of the store
LookupFails(f) ==
    IF ~bounty.is_open
    THEN /\ ~bounty.accepted
         /\ \/ ExpiryFails
            \/ DeadlineFails
            \/ f = "tips" /\ past_hard_expiration_date(bounty, now) = Ok(FALSE)
    ELSE /\ ~(bounty.pk /\ bounty.project_type \in {"contest", "cooperative"})
         /\ bounty.num_fulfillments = 0 /\ bounty.pk
         /\ f = "interested"

SavedOnce(T, f) == SaveBounty(bounty, interested, T, now, f)

SavedTwice(T, f) == SaveBounty(SavedOnce(T, f), interested, T, now, f)

\* an open contest or cooperative Bounty with fulfillments that has no row yet
UnsavedFulfilledContest ==
    /\ ~bounty.pk /\ bounty.is_open /\ bounty.num_fulfillments > 0
    /\ bounty.project_type \in {"contest", "cooperative"}

ClosedNotExpired ==
    /\ ~bounty.is_open /\ ~bounty.accepted
    /\ past_hard_expiration_date(bounty, now) = Ok(FALSE)

\* C20 as stated: a non-legacy Bounty without override that is closed, not
\* accepted and not past hard expiration resolves to 'done' exactly when a
\* funded non-fulfiller Tip matches its github_url (case-insensitively) and
\* network, and to 'cancelled' otherwise.
C20_Original ==
    (Derived /\ ClosedNotExpired) =>
        \A f \in Faults : Resolved(f) = IF SomeFundedTip THEN "done" ELSE "cancelled"

\* C20 amended: such a Bounty resolves to 'done' exactly when a funded
\* non-fulfiller Tip matches its github_url (case-insensitively) and network,
\* and to 'cancelled' otherwise, provided the Tip query does not raise; when
\* it raises the status is 'unknown'.
C20_DoneIffFundedTip ==
    (Derived /\ ClosedNotExpired) =>
        /\ \A f \in Faults \ {"tips"} :
              Resolved(f) = IF SomeFundedTip THEN "done" ELSE "cancelled"
        /\ Resolved("tips") = "unknown"

\* C20 witness: such a Bounty saved as 'done' on a funded Tip whose url
\* differs from the Bounty's in letter case only
C20_Witness ==
    /\ Derived /\ ClosedNotExpired /\ SavedAsResolved /\ bounty.idx_status = "done"
    /\ \A r \in tips : r.github_url = "https://github.com/O/R/issues/1"
    /\ SomeFundedTip

(***************************************************************************)
(* Properties of the valuation (checked under SpecValue and SpecNatural).  *)
(***************************************************************************)
\* a step that saves the Bounty: the hook's columns change, nothing else does
BountySaved ==
    /\ <<interested', tips', now', rates'>> = <<interested, tips, now, rates>>
    /\ money'.value_in_token = money.value_in_token
    /\ [bounty' EXCEPT !.idx_status = "", !.pk = FALSE] = [bounty EXCEPT !.idx_status = "", !.pk = FALSE]
    /\ <<bounty', money'>> # <<bounty, money>>

\* the token is priced through the rate service
PricedByRate == money.token_name \notin {"USDT", "DAI"}

\* C15: after a save in which the rate lookup failed, no monetary cache
\* column of the Bounty holds 0 as a result of that failure: value_in_usdt_now,
\* value_in_usdt, token_value_in_usdt and value_in_eth are None, and
\* _val_usd_db, computed from the failed lookup, is not 0.
C15_RateFailureNeverZero ==
    [][(BountySaved /\ PricedByRate) =>
         /\ rates.now = {} => money'.value_in_usdt_now = {}
         /\ (rates.now = {} /\ bounty'.idx_status \in OPEN_STATUSES)
               => money'.value_in_usdt = {} /\ money'.token_value_in_usdt = {}
         /\ (rates.then = {} /\ bounty'.idx_status \notin OPEN_STATUSES)
               => /\ money'.value_in_usdt = {} /\ money'.token_value_in_usdt = {}
                  /\ money'.val_usd_db # Zero
         /\ (rates.now = {} /\ money.token_name # "ETH") => money'.value_in_eth = {}]_vars

\* C16: at every Bounty save the written value_in_usdt and token_value_in_usdt
\* use the current pricing computed during that save when the status written
\* is open, started or submitted, and the pricing at web3_created for every
\* other status.
C16_PricingEpochFollowsStatus ==
    [][BountySaved =>
         IF bounty'.idx_status \in {"open", "started", "submitted"}
         THEN /\ money'.value_in_usdt = get_value_in_usdt_now(money, rates)
              /\ money'.token_value_in_usdt = convert_token_to_usdt(rates.now)
         ELSE /\ money'.value_in_usdt = value_in_usdt_then(money, rates)
              /\ money'.token_value_in_usdt = convert_token_to_usdt(rates.then)]_vars

\* C16 witness: a saved Bounty of two ETH whose status is 'unknown', valued at
\* the rate of its creation timestamp while the current rate differs
C16_Witness ==
    /\ bounty.pk /\ bounty.idx_status = "unknown"
    /\ money.token_name = "ETH" /\ money.value_in_token = Norm(2, 18)
    /\ rates.now = {NowRate} /\ rates.then = {ThenRate}
    /\ money.value_in_usdt = {Norm(2 * ThenRate, 0)}
    /\ money.value_in_usdt_now = {Norm(2 * NowRate, 0)}
    /\ money.token_value_in_usdt = {Norm(ThenRate, 0)}

\* every property of the entity has been read
AllRead == calc.natural # {} /\ calc.usdt_now # {} /\ calc.usdt # {}

\* C18: for every Tip with tokenName 'DAI' and amount a in base units the
\* natural value, value_in_usdt_now and value_in_usdt are a / 10^18, and
\* a = 2 * 10^18 gives 2.0.
C18_DaiTipValues ==
    (calc.pc = "read" /\ calc.entity = "tip" /\ calc.token = "DAI" /\ AllRead) =>
        /\ Val(calc.natural) = Ok(Div10(float(calc.amount), 18))
        /\ calc.usdt_now = {{Div10(float(calc.amount), 18)}}
        /\ calc.usdt = {{Div10(float(calc.amount), 18)}}
        /\ calc.amount = Norm(2, 18) => Val(calc.usdt_now) = {Norm(2, 0)}

\* C19: for every Bounty or Tip whose token the registry knows with decimals
\* d, the natural value times 10^d is the stored amount.
C19_NaturalValueRoundTrip ==
    (calc.pc = "read" /\ calc.natural # {} /\ addr_to_token(calc.token) # {}) =>
        /\ ~Val(calc.natural).exc
        /\ Mul10(Val(calc.natural).val, Val(addr_to_token(calc.token))) = calc.amount

(***************************************************************************)
(* Properties of the late-submission test (checked under SpecLate).        *)
(***************************************************************************)
\* raw_data holds an ipfs deadline and a contract deadline strictly later
LaterContractDeadline ==
    /\ bounty.raw_data.ipfs_deadline # {} /\ bounty.raw_data.contract_deadline # {}
    /\ \E c \in bounty.raw_data.contract_deadline, i \in bounty.raw_data.ipfs_deadline : c > i

\* C21: a legacy Bounty may always submit after expiry; a non-legacy Bounty
\* may submit late if and only if its raw data holds an ipfs deadline and a
\* contract deadline strictly later than it; the answer is always given.
C21_LateSubmission ==
    calc.pc = "read" =>
        calc.result = {Ok(bounty.web3_type = "legacy_gitcoin" \/ LaterContractDeadline)}

(***************************************************************************)
(* Properties of the payout's calls (checked under SpecPayout).            *)
(***************************************************************************)
\* the external calls of a payout in the order the claim gives, after the
\* connection to the network
CallsInOrder(erc20) ==
    <<"get_web3", "recommend_min_gas_price_to_confirm_in_time", "getTransactionCount">>
    \o (IF erc20 THEN <<"getBalance", "estimateGas">> ELSE << >>)
    \o <<"signTransaction", "sendRawTransaction">>

IsPrefix(s, t) == Len(s) <= Len(t) /\ SubSeq(t, 1, Len(s)) = s

PaysErc20(r) == req[r].self.tokenName \notin {"ETH", "eth"}

\* C23: a payout_to call that passed its preconditions makes its external
\* calls in the order gas price, nonce, for ERC20 only balance and gas
\* estimate, signature, broadcast; once returned it has signed once and
\* broadcast once, in that order, and returns the hash of that broadcast.
C23_CallOrder ==
    \A r \in Requests :
        req[r].pc \notin {"idle", "raised"} =>
            /\ IsPrefix(req[r].calls, CallsInOrder(PaysErc20(r)))
            /\ req[r].pc \in {"returned", "persisted"} =>
                  /\ req[r].calls = CallsInOrder(PaysErc20(r))
                  /\ req[r].result = TxHash(r) /\ TxHash(r) \in sent

\* C23 witness: a returned payout of an ERC20 token
C23_Witness ==
    \E r \in Requests :
        /\ req[r].pc = "returned" /\ PaysErc20(r)
        /\ Called(r, "estimateGas") /\ Called(r, "sendRawTransaction")

(***************************************************************************)
(* Properties of the amounts of a payout (checked under SpecGas).          *)
(***************************************************************************)
\* the transaction of a token payout has been built
Erc20Built == calc.pc \in {"built", "signed", "sent"} /\ calc.is_erc20

\* C22: the gas price of a token payout is the recommended price when gas
\* times that price is below the balance of the escrow, floor(balance / gas)
\* otherwise, and gas times the price used never exceeds the balance
C22_GasPriceCapped ==
    Erc20Built =>
        LET t == Val(calc.tx)
            b == Val(calc.balance)
        IN  /\ t.gas * t.gasPrice <= b
            /\ t.gas * t.gasPrice < b \/ t.gasPrice = b \div t.gas

\* C29: the value of a native payout is the amount minus 100000 times the gas
\* price, and no transaction with a negative value is signed or broadcast
C29_NoNegativeValue ==
    (calc.pc \in {"signed", "sent"} /\ ~calc.is_erc20) =>
        LET t == Val(calc.tx)
        IN  t.value >= 0

(***************************************************************************)
(* Properties of the value caches (checked under SpecValue).               *)
(***************************************************************************)
\* C26: after every Bounty save, the first one included, _val_usd_db equals
\* the value_in_usdt that save wrote, or 0 when that value is None
C26_ValUsdDbFollowsValue ==
    [][BountySaved => money'.val_usd_db = OrZero(money'.value_in_usdt)]_vars

(***************************************************************************)
(* Properties of an override that is set and cleared (checked under Spec). *)
(***************************************************************************)
\* the Bounty once override o was set and saved, then cleared and saved again,
\* nothing else changed and the store answering
OverriddenAndCleared(o) ==
    LET b1 == SaveBounty([bounty EXCEPT !.override_status = o], interested, tips, now, "none")
    IN  SaveBounty([b1 EXCEPT !.override_status = ""], interested, tips, now, "none")

\* C27: an override is reversible: for every Bounty, legacy or not, setting an
\* override_status and saving, then clearing it and saving again at the same
\* time restores the idx_status of the last save before the override
C27_OverrideReversible ==
    \A o \in OverrideStatuses \ {""} :
        (bounty.pk /\ bounty.override_status = "" /\ (is_legacy(bounty) \/ SavedAsResolved))
            => OverriddenAndCleared(o).idx_status = bounty.idx_status

(***************************************************************************)
(* Properties of the cached status between saves (checked under SpecTips). *)
(***************************************************************************)
\* the cached status of a saved, derived Bounty is the status it resolves to
CacheCurrent == (bounty.pk /\ Derived) => bounty.idx_status = Resolved("none")

\* a Tip row is created or funded, nothing else changes
TipChanged == tips' # tips /\ <<bounty', interested', now'>> = <<bounty, interested, now>>

\* the fulfillment count changes, nothing else does
CountChanged ==
    /\ bounty'.num_fulfillments # bounty.num_fulfillments
    /\ [bounty' EXCEPT !.num_fulfillments = bounty.num_fulfillments] = bounty
    /\ <<interested', tips', now'>> = <<interested, tips, now>>

\* C25: in every state reached by saves, Tip creations or fundings and
\* fulfillment-count changes, a saved non-legacy Bounty without override has
\* an idx_status equal to the status resolved from the current state at the
\* same time: a current cache stays current across each of these steps
C25_CacheNeverStale ==
    [][(CacheCurrent /\ (TipChanged \/ CountChanged)) => CacheCurrent']_vars

(***************************************************************************)
(* Properties of the timestamp caches (checked under SpecCaches).          *)
(***************************************************************************)
\* the creation time of the earliest Interest with pending = false, if any
EarliestStarted ==
    LET act == SelectSeq(interested, LAMBDA i : ~i.pending)
    IN  IF act = << >> THEN {} ELSE {Head(act).created}

\* the accepted_on of the earliest accepted fulfillment, if any
EarliestAccepted ==
    LET acc == SelectSeq(calc.fulfillments, LAMBDA f : f.accepted)
    IN  IF acc = << >> THEN {} ELSE Head(acc).accepted_on

\* the creation time of the earliest fulfillment, if any
EarliestSubmitted ==
    IF calc.fulfillments = << >> THEN {} ELSE {Head(calc.fulfillments).created_on}

\* C24: after a Bounty save fulfillment_accepted_on is the accepted_on of the
\* earliest accepted fulfillment, fulfillment_submitted_on the creation time of
\* the earliest fulfillment and fulfillment_started_on the creation time of
\* the earliest Interest with pending = false, each empty when there is none
C24_TimestampCaches ==
    (calc.pc = "saved" /\ calc.fault = "none") =>
        /\ calc.fulfillment_accepted_on = EarliestAccepted
        /\ calc.fulfillment_submitted_on = EarliestSubmitted
        /\ calc.fulfillment_started_on = EarliestStarted

(***************************************************************************)
(* Properties of Interest.change_status (checked under SpecInterest).      *)
(***************************************************************************)
\* C28: change_status(s) sets the status of the Interest to s and saves it
\* when s is one of the five status values; it leaves the Interest unchanged
\* and saves nothing when s is None or any other value
C28_ChangeStatus ==
    calc.pc = "returned" =>
        IF \E v \in WorkStatusValues : calc.status = {Str(v)}
        THEN interested[1].status = Val(calc.status) /\ calc.saved
        ELSE interested[1].status = calc.before /\ ~calc.saved

====
